---- MODULE Spec2Model ----
(***************************************************************************)
(* A model of kdbush.go: the flat k-d tree index over 2D points.           *)
(*                                                                         *)
(* Go slices are 0-based; the sequences below are 1-based, so slice        *)
(* element a[i] is the sequence element a[i + 1] (operator At).            *)
(* Coordinates are float64 in the source; the model draws them from a      *)
(* small set of integers, on which the float comparisons and the           *)
(* arithmetic of the queries are exact.                                    *)
(***************************************************************************)
EXTENDS Integers, Sequences, FiniteSets

\* ------------------------------------------------------------------ bounds

\* The largest number of points handed to NewBush.
MaxN == 3

\* The largest nodeSize handed to NewBush (the smallest is 0).
MaxNodeSize == 2

\* The largest radius handed to Within (the smallest is -1).
MaxRadius == 1

\* The largest slice handed to a direct call of sselect.
MaxSelN == 4

\* The largest number of points, of coordinates in DeepValues, of an index
\* that is queried again and again.
MaxQueryN == 2

\* The number of points handed to NewBush when their coordinates are drawn
\* from DeepValues and nodeSize is 1: enough for sort to split a part of a
\* split range.
MaxDeepN == 6

\* The values a coordinate takes.
CoordValues == {0, 1, 2}

\* The values a coordinate takes in the longer slices.
DeepValues == {0, 1}

\* sselect samples the range first when it is longer than this
\* (kdbush.go:192).  No range of the model is that long, and the sampling
\* branch (lines 193-205) is not taken.
SampleThreshold == 600

\* ------------------------------------------------------------------- state

VARIABLES
    points,      \* NewBush's argument: the caller's slice of points, <<x, y>> each
    nodeSize,    \* NewBush's argument
    NodeSize,    \* KDBush.NodeSize
    Points,      \* KDBush.Points
    Idxs,        \* KDBush.Idxs
    Coords,      \* KDBush.Coords
    pc,          \* the position of the running call
    frames,      \* the calls of sort in progress, the innermost last
    sel,         \* the parameters and locals of the running sselect
    entry,       \* the arguments and the arrays at the entry of the running sselect
    touched,     \* the positions the running sselect has accessed
    split,       \* the ranges sort has partitioned: <<left, right, m, axis>>
    leaves,      \* the ranges at which sort returned without splitting
    call,        \* the last query: its name and arguments
    result,      \* the slice the last query returned
    scanned      \* the ranges the last query scanned linearly

vars == <<points, nodeSize, NodeSize, Points, Idxs, Coords, pc, frames, sel,
          entry, touched, split, leaves, call, result, scanned>>

bushVars == <<NodeSize, Points, Idxs, Coords>>
buildVars == <<pc, frames, sel, entry, touched, split, leaves>>
queryVars == <<call, result, scanned>>

\* ----------------------------------------------------------------- helpers

\* a[i] of a Go slice.
At(a, i) == a[i + 1]

\* len(a) = n and i is an index of a.
InSlice(n, i) == 0 <= i /\ i < n

SeqToSet(s) == {s[p] : p \in 1..Len(s)}

\* The sequences over S of length at most n.
SeqsUpTo(S, n) == UNION {[1..m -> S] : m \in 0..n}

floor(twice) == twice \div 2

sqrtDist(ax, ay, bx, by) ==
    LET dx == ax - bx
        dy == ay - by
    IN  dx * dx + dy * dy

swapi(a, i, j) == [a EXCEPT ![i + 1] = At(a, j), ![j + 1] = At(a, i)]

swapf(a, i, j) == [a EXCEPT ![i + 1] = At(a, j), ![j + 1] = At(a, i)]

\* swapItem without its last line: the y coordinates stay where they are.
swapItemWithoutY(idxs, coords, i, j) ==
    [Idxs   |-> swapi(idxs, i, j),
     Coords |-> swapf(coords, 2 * i, 2 * j)]

\* swapItem on the pair of slices; the result is the pair after the call.
swapItem(idxs, coords, i, j) ==
    [Idxs   |-> swapi(idxs, i, j),
     Coords |-> swapf(swapf(coords, 2 * i, 2 * j), 2 * i + 1, 2 * j + 1)]

NoSel == [k |-> 0, left |-> 0, right |-> 0, inc |-> 0, i |-> 0, j |-> 0, t |-> 0]
NoEntry == [Idxs |-> <<>>, Coords |-> <<>>, k |-> 0, left |-> 0, right |-> 0, inc |-> 0]
NoCall == [op |-> "none"]

\* ---------------------------------------------------------------- NewBush

\* The coordinates of points, interleaved: the loop of buildIndex.
InitCoords(ps) ==
    [p \in 1..(2 * Len(ps)) |-> IF p % 2 = 1 THEN ps[(p + 1) \div 2][1]
                                              ELSE ps[p \div 2][2]]

InitIdxs(ps) == [p \in 1..Len(ps) |-> p - 1]

\* buildIndex without line 160.
PointsNotKept(ps) == <<>>

\* The value buildIndex stores in KDBush.Points.
KeptPoints(ps) == ps

\* The value buildIndex stores in KDBush.NodeSize and hands to sort.
KeptNodeSize(ns) == ns

Frame(ns, left, right, depth) ==
    [nodeSize |-> ns, left |-> left, right |-> right, depth |-> depth,
     m |-> 0, at |-> "entry"]

\* NewBush up to the call of sort: the fields of the index are set and the
\* outermost sort is entered.
buildIndex ==
    /\ pc = "NewBush"
    /\ NodeSize' = KeptNodeSize(nodeSize)
    /\ Points' = KeptPoints(points)
    /\ Idxs' = InitIdxs(points)
    /\ Coords' = InitCoords(points)
    /\ frames' = <<Frame(KeptNodeSize(nodeSize), 0, Len(points) - 1, 0)>>
    /\ pc' = "sort"
    /\ UNCHANGED <<points, nodeSize, sel, entry, touched, split, leaves>>
    /\ UNCHANGED queryVars

\* ------------------------------------------------------------------- sort

Top == frames[Len(frames)]
Pop == SubSeq(frames, 1, Len(frames) - 1)
SetTop(f) == [frames EXCEPT ![Len(frames)] = f]

\* The test of sort off by one: a range of nodeSize + 2 points is a leaf.
sortStopsLate(left, right, ns) == (right - left) <= ns + 1

\* The test that ends the recursion of sort.
sortStops(left, right, ns) == (right - left) <= ns

\* The control after a call of sort returns: its caller goes on, and the
\* outermost call returns to buildIndex and NewBush, which return the index.
Returned(rest) == IF rest = <<>> THEN "done" ELSE "sort"

\* sort, lines 176-178: the range is a leaf.
sortLeaf ==
    /\ pc = "sort"
    /\ Top.at = "entry"
    /\ sortStops(Top.left, Top.right, Top.nodeSize)
    /\ leaves' = leaves \cup {<<Top.left, Top.right>>}
    /\ frames' = Pop
    /\ pc' = Returned(Pop)
    /\ UNCHANGED <<points, nodeSize, sel, entry, touched, split>>
    /\ UNCHANGED bushVars
    /\ UNCHANGED queryVars

\* The middle position of a range.
Mid(left, right) == floor(left + right)

\* The records sort hands to its two recursive calls.
sortLeftRange(left, m) == <<left, m - 1>>
sortRightRange(m, right) == <<m + 1, right>>

\* sort, lines 180-182: the range is split and sselect is called.
sortSplit ==
    /\ pc = "sort"
    /\ Top.at = "entry"
    /\ ~sortStops(Top.left, Top.right, Top.nodeSize)
    /\ LET m == Mid(Top.left, Top.right) IN
        /\ frames' = SetTop([Top EXCEPT !.m = m, !.at = "selected"])
        /\ sel' = [NoSel EXCEPT !.k = m, !.left = Top.left, !.right = Top.right,
                                !.inc = Top.depth % 2]
        /\ entry' = [Idxs |-> Idxs, Coords |-> Coords, k |-> m,
                     left |-> Top.left, right |-> Top.right, inc |-> Top.depth % 2]
    /\ touched' = {}
    /\ pc' = "sselect"
    /\ UNCHANGED <<points, nodeSize, split, leaves>>
    /\ UNCHANGED bushVars
    /\ UNCHANGED queryVars

\* sort, line 184: the call on the left part.
sortLeft ==
    /\ pc = "sort"
    /\ Top.at = "selected"
    /\ LET r == sortLeftRange(Top.left, Top.m) IN
        frames' = Append(SetTop([Top EXCEPT !.at = "left"]),
                         Frame(Top.nodeSize, r[1], r[2], Top.depth + 1))
    /\ UNCHANGED <<points, nodeSize, pc, sel, entry, touched, split, leaves>>
    /\ UNCHANGED bushVars
    /\ UNCHANGED queryVars

\* sort, line 185: the call on the right part.
sortRight ==
    /\ pc = "sort"
    /\ Top.at = "left"
    /\ LET r == sortRightRange(Top.m, Top.right) IN
        frames' = Append(SetTop([Top EXCEPT !.at = "right"]),
                         Frame(Top.nodeSize, r[1], r[2], Top.depth + 1))
    /\ UNCHANGED <<points, nodeSize, pc, sel, entry, touched, split, leaves>>
    /\ UNCHANGED bushVars
    /\ UNCHANGED queryVars

\* sort, line 187: both parts are done.
sortReturn ==
    /\ pc = "sort"
    /\ Top.at = "right"
    /\ frames' = Pop
    /\ pc' = Returned(Pop)
    /\ UNCHANGED <<points, nodeSize, sel, entry, touched, split, leaves>>
    /\ UNCHANGED bushVars
    /\ UNCHANGED queryVars

\* ---------------------------------------------------------------- sselect

\* The scan with <= for <: it runs over the values equal to the pivot.
RECURSIVE scanUpOverEqual(_, _, _, _)
scanUpOverEqual(coords, i, inc, t) ==
    IF ~InSlice(Len(coords) \div 2, i) THEN i
    ELSE IF At(coords, 2 * i + inc) <= t THEN scanUpOverEqual(coords, i + 1, inc, t)
    ELSE i

\* for Coords[2*i+inc] < t { i += 1 }: the position the loop stops at.  A
\* position past the end of the slice is returned as it is: the access there
\* is out of range.
RECURSIVE scanUp(_, _, _, _)
scanUp(coords, i, inc, t) ==
    IF ~InSlice(Len(coords) \div 2, i) THEN i
    ELSE IF At(coords, 2 * i + inc) < t THEN scanUp(coords, i + 1, inc, t)
    ELSE i

\* for Coords[2*j+inc] > t { j -= 1 }: the position the loop stops at.
RECURSIVE scanDown(_, _, _, _)
scanDown(coords, j, inc, t) ==
    IF ~InSlice(Len(coords) \div 2, j) THEN j
    ELSE IF At(coords, 2 * j + inc) > t THEN scanDown(coords, j - 1, inc, t)
    ELSE j

\* An index expression out of range panics, and the program ends.
Panic ==
    /\ pc' = "panic"
    /\ UNCHANGED <<frames, sel, entry, split, leaves>>
    /\ UNCHANGED bushVars

AllIn(S) == \A p \in S : InSlice(Len(Idxs), p)

\* sselect, lines 191 and 208-212: the loop goes on, the pivot value is
\* read and the pivot is moved to the left end.
selectPivot ==
    /\ pc = "sselect"
    /\ sel.right > sel.left
    /\ sel.right - sel.left <= SampleThreshold
    /\ touched' = touched \cup {sel.k, sel.left}
    /\ IF AllIn({sel.k, sel.left})
       THEN LET s == swapItem(Idxs, Coords, sel.left, sel.k) IN
            /\ sel' = [sel EXCEPT !.t = At(Coords, 2 * sel.k + sel.inc),
                                  !.i = sel.left, !.j = sel.right]
            /\ Idxs' = s.Idxs
            /\ Coords' = s.Coords
            /\ pc' = "sentinel"
            /\ UNCHANGED <<NodeSize, Points, frames, entry, split, leaves>>
       ELSE Panic
    /\ UNCHANGED <<points, nodeSize>>
    /\ UNCHANGED queryVars

\* sselect, lines 213-215: a value above the pivot at the right end is
\* exchanged with the pivot.
selectSentinel ==
    /\ pc = "sentinel"
    /\ touched' = touched \cup {sel.right} \cup
                  (IF InSlice(Len(Idxs), sel.right)
                      /\ At(Coords, 2 * sel.right + sel.inc) > sel.t
                   THEN {sel.left} ELSE {})
    /\ IF AllIn({sel.right, sel.left})
       THEN LET s == IF At(Coords, 2 * sel.right + sel.inc) > sel.t
                     THEN swapItem(Idxs, Coords, sel.left, sel.right)
                     ELSE [Idxs |-> Idxs, Coords |-> Coords] IN
            /\ Idxs' = s.Idxs
            /\ Coords' = s.Coords
            /\ pc' = "scan"
            /\ UNCHANGED <<NodeSize, Points, frames, sel, entry, split, leaves>>
       ELSE Panic
    /\ UNCHANGED <<points, nodeSize>>
    /\ UNCHANGED queryVars

\* sselect, lines 217-227: one round of the two-pointer scan.
selectScan ==
    /\ pc = "scan"
    /\ sel.i < sel.j
    /\ IF AllIn({sel.i, sel.j})
       THEN LET s  == swapItem(Idxs, Coords, sel.i, sel.j)
                i2 == scanUp(s.Coords, sel.i + 1, sel.inc, sel.t)
                j2 == scanDown(s.Coords, sel.j - 1, sel.inc, sel.t) IN
            /\ touched' = touched \cup {sel.i, sel.j} \cup ((sel.i + 1)..i2)
                          \cup (IF InSlice(Len(Idxs), i2) THEN j2..(sel.j - 1) ELSE {})
            /\ IF AllIn({i2, j2})
               THEN /\ Idxs' = s.Idxs
                    /\ Coords' = s.Coords
                    /\ sel' = [sel EXCEPT !.i = i2, !.j = j2]
                    /\ pc' = "scan"
                    /\ UNCHANGED <<NodeSize, Points, frames, entry, split, leaves>>
               ELSE Panic
       ELSE /\ touched' = touched \cup {sel.i, sel.j}
            /\ Panic
    /\ UNCHANGED <<points, nodeSize>>
    /\ UNCHANGED queryVars

\* Line 239 with < for <=: the right end stays when j = k.
narrowRightStrict(right, j, k) == IF k < j THEN j - 1 ELSE right

\* sselect, lines 236-241: the range that still holds position k.
narrowLeft(left, j, k) == IF j <= k THEN j + 1 ELSE left
narrowRight(right, j, k) == IF k <= j THEN j - 1 ELSE right

\* sselect, lines 229-241: the scan is over, the pivot is put in its place
\* and the range is narrowed to the side of k.
selectPlace ==
    /\ pc = "scan"
    /\ ~(sel.i < sel.j)
    /\ LET atLeft == InSlice(Len(Idxs), sel.left)
                     /\ At(Coords, 2 * sel.left + sel.inc) = sel.t
           j2 == IF atLeft THEN sel.j ELSE sel.j + 1
           other == IF atLeft THEN sel.left ELSE sel.right IN
        /\ touched' = touched \cup {sel.left} \cup
                      (IF InSlice(Len(Idxs), sel.left) THEN {j2, other} ELSE {})
        /\ IF AllIn({sel.left, j2, other})
           THEN LET s == swapItem(Idxs, Coords, other, j2) IN
                /\ Idxs' = s.Idxs
                /\ Coords' = s.Coords
                /\ sel' = [sel EXCEPT !.j = j2,
                                      !.left = narrowLeft(sel.left, j2, sel.k),
                                      !.right = narrowRight(sel.right, j2, sel.k)]
                /\ pc' = "sselect"
                /\ UNCHANGED <<NodeSize, Points, frames, entry, split, leaves>>
           ELSE Panic
    /\ UNCHANGED <<points, nodeSize>>
    /\ UNCHANGED queryVars

\* sselect, line 191: the loop ends and sselect returns; when sort called
\* it, sort goes on and the parameters and locals of sselect are gone.
selectReturn ==
    /\ pc = "sselect"
    /\ ~(sel.right > sel.left)
    /\ IF frames = <<>>
       THEN /\ pc' = "returned"
            /\ UNCHANGED <<sel, entry, touched, split>>
       ELSE /\ pc' = "sort"
            /\ split' = split \cup {<<Top.left, Top.right, Top.m, Top.depth % 2>>}
            /\ sel' = NoSel
            /\ entry' = NoEntry
            /\ touched' = {}
    /\ UNCHANGED <<points, nodeSize, frames, leaves>>
    /\ UNCHANGED bushVars
    /\ UNCHANGED queryVars

\* ------------------------------------------------------------------ Range

\* The index a query method is called on.
Bush == [NodeSize |-> NodeSize, Points |-> Points, Idxs |-> Idxs, Coords |-> Coords]

Box(minX, minY, maxX, maxY) == [minX |-> minX, minY |-> minY, maxX |-> maxX, maxY |-> maxY]

\* The test of a point against the box (lines 67 and 79).
inBox(box, x, y) == x >= box.minX /\ x <= box.maxX /\ y >= box.minY /\ y <= box.maxY

\* Line 85 with < for <=: the left part is left out when the box starts
\* at the value of the middle point.
rangeLeftStrict(axis, box, x, y) == (axis = 0 /\ box.minX < x) \/ (axis /= 0 /\ box.minY < y)

\* The test of line 85: the left part is visited.
rangeLeft(axis, box, x, y) == (axis = 0 /\ box.minX <= x) \/ (axis /= 0 /\ box.minY <= y)

\* The test of line 91: the right part is visited.
rangeRight(axis, box, x, y) == (axis = 0 /\ box.maxX >= x) \/ (axis /= 0 /\ box.maxY >= y)

\* The test of lines 63 and 116: the range is scanned, not split.
queryScans(left, right, ns) == right - left <= ns

\* The loop of lines 64-70, from position i on.
RECURSIVE rangeScan(_, _, _, _, _)
rangeScan(bush, box, i, right, res) ==
    IF ~(i <= right) THEN res
    ELSE LET x == At(bush.Coords, 2 * i)
             y == At(bush.Coords, 2 * i + 1)
         IN  rangeScan(bush, box, i + 1, right,
                       IF inBox(box, x, y) THEN Append(res, At(bush.Idxs, i)) ELSE res)

\* The loop of lines 55-97.  A query returns its slice, the ranges it
\* scanned and the index as the call leaves it.
RECURSIVE rangeLoop(_, _, _, _, _)
rangeLoop(bush, box, stack, res, scn) ==
    IF ~(Len(stack) > 0) THEN [bush |-> bush, result |-> res, scanned |-> scn]
    ELSE LET axis  == stack[Len(stack)]
             right == stack[Len(stack) - 1]
             left  == stack[Len(stack) - 2]
             rest  == SubSeq(stack, 1, Len(stack) - 3)
         IN  IF queryScans(left, right, bush.NodeSize)
             THEN rangeLoop(bush, box, rest, rangeScan(bush, box, left, right, res),
                            scn \cup {<<left, right>>})
             ELSE LET m == Mid(left, right)
                      x == At(bush.Coords, 2 * m)
                      y == At(bush.Coords, 2 * m + 1)
                      res2 == IF inBox(box, x, y) THEN Append(res, At(bush.Idxs, m))
                                                  ELSE res
                      nextAxis == (axis + 1) % 2
                      s1 == IF rangeLeft(axis, box, x, y)
                            THEN rest \o <<left, m - 1, nextAxis>> ELSE rest
                      s2 == IF rangeRight(axis, box, x, y)
                            THEN s1 \o <<m + 1, right, nextAxis>> ELSE s1
                  IN  rangeLoop(bush, box, s2, res2, scn)

\* Range with result := bush.Idxs[:0] for result := []int{}: the positions
\* found are written over the first entries of Idxs.
RangeIntoIdxs(bush, minX, minY, maxX, maxY) ==
    LET out == rangeLoop(bush, Box(minX, minY, maxX, maxY),
                         <<0, Len(bush.Idxs) - 1, 0>>, <<>>, {})
    IN  [out EXCEPT !.bush.Idxs =
            [p \in 1..Len(bush.Idxs) |->
                IF p <= Len(out.result) THEN out.result[p] ELSE bush.Idxs[p]]]

Range(bush, minX, minY, maxX, maxY) ==
    rangeLoop(bush, Box(minX, minY, maxX, maxY), <<0, Len(bush.Idxs) - 1, 0>>, <<>>, {})

\* A call of Range on the index NewBush returned.
callRange ==
    /\ pc = "done"
    /\ \E minX \in CoordValues, minY \in CoordValues,
          maxX \in CoordValues, maxY \in CoordValues :
        /\ minX <= maxX
        /\ minY <= maxY
        /\ \E out \in {Range(Bush, minX, minY, maxX, maxY)} :
            /\ NodeSize' = out.bush.NodeSize
            /\ Points' = out.bush.Points
            /\ Idxs' = out.bush.Idxs
            /\ Coords' = out.bush.Coords
            /\ result' = out.result
            /\ scanned' = out.scanned
        /\ call' = [op |-> "Range", minX |-> minX, minY |-> minY,
                    maxX |-> maxX, maxY |-> maxY]
    /\ UNCHANGED <<points, nodeSize>>
    /\ UNCHANGED buildVars

\* ----------------------------------------------------------------- Within

\* The test of lines 119 and 130.
withinHit(x, y, qx, qy, r2) == sqrtDist(x, y, qx, qy) <= r2

\* The test of line 136: the left part is visited.
withinLeft(axis, qx, qy, radius, x, y) ==
    (axis = 0 /\ (qx - radius <= x)) \/ (axis /= 0 /\ (qy - radius <= y))

\* Line 142 without the radius: the right part is visited only when the
\* query point is not on the left of the middle point.
withinRightOfPoint(axis, qx, qy, radius, x, y) ==
    (axis = 0 /\ (qx >= x)) \/ (axis /= 0 /\ (qy >= y))

\* The test of line 142: the right part is visited.
withinRight(axis, qx, qy, radius, x, y) ==
    (axis = 0 /\ (qx + radius >= x)) \/ (axis /= 0 /\ (qy + radius >= y))

\* The loop of lines 117-122, from position i on.
RECURSIVE withinScan(_, _, _, _, _, _, _)
withinScan(bush, qx, qy, r2, i, right, res) ==
    IF ~(i <= right) THEN res
    ELSE LET hit == withinHit(At(bush.Coords, 2 * i), At(bush.Coords, 2 * i + 1),
                              qx, qy, r2)
         IN  withinScan(bush, qx, qy, r2, i + 1, right,
                        IF hit THEN Append(res, At(bush.Idxs, i)) ELSE res)

\* The loop of lines 108-147.
RECURSIVE withinLoop(_, _, _, _, _, _, _)
withinLoop(bush, qx, qy, radius, stack, res, scn) ==
    IF ~(Len(stack) > 0) THEN [bush |-> bush, result |-> res, scanned |-> scn]
    ELSE LET r2    == radius * radius
             axis  == stack[Len(stack)]
             right == stack[Len(stack) - 1]
             left  == stack[Len(stack) - 2]
             rest  == SubSeq(stack, 1, Len(stack) - 3)
         IN  IF queryScans(left, right, bush.NodeSize)
             THEN withinLoop(bush, qx, qy, radius, rest,
                             withinScan(bush, qx, qy, r2, left, right, res),
                             scn \cup {<<left, right>>})
             ELSE LET m == Mid(left, right)
                      x == At(bush.Coords, 2 * m)
                      y == At(bush.Coords, 2 * m + 1)
                      res2 == IF withinHit(x, y, qx, qy, r2)
                              THEN Append(res, At(bush.Idxs, m)) ELSE res
                      nextAxis == (axis + 1) % 2
                      s1 == IF withinLeft(axis, qx, qy, radius, x, y)
                            THEN rest \o <<left, m - 1, nextAxis>> ELSE rest
                      s2 == IF withinRight(axis, qx, qy, radius, x, y)
                            THEN s1 \o <<m + 1, right, nextAxis>> ELSE s1
                  IN  withinLoop(bush, qx, qy, radius, s2, res2, scn)

Within(bush, qx, qy, radius) ==
    withinLoop(bush, qx, qy, radius, <<0, Len(bush.Idxs) - 1, 0>>, <<>>, {})

\* A call of Within on the index NewBush returned.
callWithin ==
    /\ pc = "done"
    /\ \E qx \in CoordValues, qy \in CoordValues, radius \in (-1)..MaxRadius :
        /\ \E out \in {Within(Bush, qx, qy, radius)} :
            /\ NodeSize' = out.bush.NodeSize
            /\ Points' = out.bush.Points
            /\ Idxs' = out.bush.Idxs
            /\ Coords' = out.bush.Coords
            /\ result' = out.result
            /\ scanned' = out.scanned
        /\ call' = [op |-> "Within", qx |-> qx, qy |-> qy, radius |-> radius]
    /\ UNCHANGED <<points, nodeSize>>
    /\ UNCHANGED buildVars

\* --------------------------------------------------------- specifications

\* The state at any of the calls NewBush(points, nodeSize).
Called(calls) ==
    /\ \E c \in calls :
        /\ points = c[1]
        /\ nodeSize = c[2]
    /\ NodeSize = 0
    /\ Points = <<>>
    /\ Idxs = <<>>
    /\ Coords = <<>>
    /\ pc = "NewBush"
    /\ frames = <<>>
    /\ sel = NoSel
    /\ entry = NoEntry
    /\ touched = {}
    /\ split = {}
    /\ leaves = {}
    /\ call = NoCall
    /\ result = <<>>
    /\ scanned = {}

\* At most MaxN points of any coordinates with any nodeSize from 0 on, or
\* MaxDeepN points of coordinates in DeepValues with nodeSize 1, the
\* smallest the interface allows.
Calls ==
    (SeqsUpTo(CoordValues \X CoordValues, MaxN) \X (0..MaxNodeSize))
        \cup ([1..MaxDeepN -> DeepValues \X DeepValues] \X {1})

Init == Called(Calls)

\* The steps of NewBush.
NextBuild ==
    \/ buildIndex
    \/ sortLeaf
    \/ sortSplit
    \/ sortLeft
    \/ sortRight
    \/ sortReturn
    \/ selectPivot
    \/ selectSentinel
    \/ selectScan
    \/ selectPlace
    \/ selectReturn

\* NewBush alone.
SpecBuild == Init /\ [][NextBuild]_vars

\* The first query on the index NewBush returned.
firstRange == call = NoCall /\ callRange
firstWithin == call = NoCall /\ callWithin

NextRange ==
    \/ NextBuild
    \/ firstRange

\* NewBush, then a call of Range on the index.
SpecRange == Init /\ [][NextRange]_vars

NextWithin ==
    \/ NextBuild
    \/ firstWithin

\* NewBush, then a call of Within on the index.
SpecWithin == Init /\ [][NextWithin]_vars

\* A call of NewBush on at most MaxQueryN points of coordinates in DeepValues.
InitQueries ==
    Called(SeqsUpTo(DeepValues \X DeepValues, MaxQueryN) \X (0..MaxNodeSize))

NextQueries ==
    \/ NextBuild
    \/ callRange
    \/ callWithin

\* NewBush, then any number of queries on the index, one after the other.
SpecQueries == InitQueries /\ [][NextQueries]_vars

\* The records of a slice of n points whose coordinate on axis inc is
\* given by vals and whose other coordinate is the position.
SelCoords(vals, inc) ==
    [p \in 1..(2 * Len(vals)) |->
        LET pos == (p - 1) \div 2 IN
        IF (p - 1) % 2 = inc THEN vals[pos + 1] ELSE pos]

\* A direct call sselect(Idxs, Coords, k, left, right, inc) with
\* left <= k <= right on any slices of at most MaxSelN records.
InitSelect ==
    /\ \E vals \in SeqsUpTo(CoordValues, MaxSelN) :
       \E inc \in {0, 1} :
       \E left \in 0..(Len(vals) - 1) :
       \E right \in left..(Len(vals) - 1) :
       \E k \in left..right :
        /\ Idxs = InitIdxs(vals)
        /\ Coords = SelCoords(vals, inc)
        /\ sel = [NoSel EXCEPT !.k = k, !.left = left, !.right = right, !.inc = inc]
        /\ entry = [Idxs |-> Idxs, Coords |-> Coords, k |-> k,
                    left |-> left, right |-> right, inc |-> inc]
    /\ points = <<>>
    /\ nodeSize = 0
    /\ NodeSize = 0
    /\ Points = <<>>
    /\ pc = "sselect"
    /\ frames = <<>>
    /\ touched = {}
    /\ split = {}
    /\ leaves = {}
    /\ call = NoCall
    /\ result = <<>>
    /\ scanned = {}

NextSelect ==
    \/ selectPivot
    \/ selectSentinel
    \/ selectScan
    \/ selectPlace
    \/ selectReturn

\* sselect runs to its end: nothing but its own steps decides when it goes on.
SpecSelect == InitSelect /\ [][NextSelect]_vars /\ WF_vars(NextSelect)

\* ----------------------------------------------------------------- claims

N == Len(points)

\* The coordinates of the input point at original position i.
PX(i) == points[i + 1][1]
PY(i) == points[i + 1][2]

NoDuplicates(s) == \A p, q \in 1..Len(s) : s[p] = s[q] => p = q

\* The last call on the index NewBush returned was the query op.
Queried(op) == pc = "done" /\ call.op = op

\* C1: Range on the index NewBush built returns, for every box with
\* minX <= maxX and minY <= maxY, each original position whose point lies in
\* the box, edges included, exactly once, and no other position: as a set
\* the result is the linear scan of the input.
C1_RangeIsLinearScan ==
    Queried("Range") =>
        /\ NoDuplicates(result)
        /\ SeqToSet(result) =
            {i \in 0..(N - 1) : /\ call.minX <= PX(i) /\ PX(i) <= call.maxX
                                /\ call.minY <= PY(i) /\ PY(i) <= call.maxY}

\* C1's case: nodeSize >= 1, a range split twice, a part of the tree not
\* visited, a point on an edge of the box returned and a point left out.
C1_Witness ==
    /\ Queried("Range")
    /\ NodeSize >= 1
    /\ \E s \in split : s[4] = 1
    /\ scanned /= leaves
    /\ \E p \in 1..Len(result) : PX(result[p]) = call.minX /\ PX(result[p]) < call.maxX
    /\ Len(result) >= 2
    /\ Len(result) < N

\* C2: Within on the index NewBush built returns, for every radius >= 0,
\* each original position whose point is at squared distance at most
\* radius^2 from the query point exactly once, and no other position.
C2_WithinIsLinearScan ==
    (Queried("Within") /\ call.radius >= 0) =>
        /\ NoDuplicates(result)
        /\ SeqToSet(result) =
            {i \in 0..(N - 1) :
                (PX(i) - call.qx) * (PX(i) - call.qx)
                    + (PY(i) - call.qy) * (PY(i) - call.qy)
                    <= call.radius * call.radius}

\* C2's case: nodeSize >= 1, a range split twice, a part of the tree not
\* visited, a point at distance exactly radius > 0 returned, a point left out.
C2_Witness ==
    /\ Queried("Within")
    /\ call.radius >= 1
    /\ NodeSize >= 1
    /\ \E s \in split : s[4] = 1
    /\ scanned /= leaves
    /\ \E p \in 1..Len(result) :
        sqrtDist(PX(result[p]), PY(result[p]), call.qx, call.qy)
            = call.radius * call.radius
    /\ Len(result) < N

\* C2's other case: radius 0 returns the points at the query point.
C2_WitnessZero ==
    /\ Queried("Within")
    /\ call.radius = 0
    /\ Len(result) = 2
    /\ Len(result) < N

\* C3: from the moment buildIndex has filled the slices, after every
\* swapItem and in the index NewBush returns, Idxs is a permutation of
\* 0..n-1, Coords has length 2n, and the two coordinates at position i are
\* those of the input point at position Idxs[i].
C3_Pairing ==
    pc /= "NewBush" =>
        /\ Len(Idxs) = N
        /\ SeqToSet(Idxs) = 0..(N - 1)
        /\ Len(Coords) = 2 * N
        /\ \A i \in 0..(N - 1) :
            /\ At(Coords, 2 * i) = PX(At(Idxs, i))
            /\ At(Coords, 2 * i + 1) = PY(At(Idxs, i))

\* C3's case: in the middle of sselect, after swaps that moved records.
C3_Witness ==
    /\ pc = "scan"
    /\ sel.i > sel.left
    /\ Idxs /= InitIdxs(points)
    /\ \E i, j \in 0..(N - 1) : PX(i) /= PX(j) /\ PY(i) /= PY(j)

\* Positions left..m-1 are not above position m on the axis, and positions
\* m+1..right are not below it.
PartitionedAt(left, right, m, axis) ==
    /\ \A p \in left..(m - 1) : At(Coords, 2 * p + axis) <= At(Coords, 2 * m + axis)
    /\ \A p \in (m + 1)..right : At(Coords, 2 * p + axis) >= At(Coords, 2 * m + axis)

\* The k-d partial order of the range [left, right] at the depth.
RECURSIVE KDOrdered(_, _, _)
KDOrdered(left, right, depth) ==
    IF right - left <= NodeSize THEN TRUE
    ELSE LET m == (left + right) \div 2 IN
         /\ PartitionedAt(left, right, m, depth % 2)
         /\ KDOrdered(left, m - 1, depth + 1)
         /\ KDOrdered(m + 1, right, depth + 1)

\* C4: the index NewBush returns is in k-d partial order from [0, n-1] at
\* depth 0 down, and during construction every range that sselect has
\* partitioned stays partitioned while the other ranges are worked on.
C4_KDOrder ==
    /\ \A s \in split : PartitionedAt(s[1], s[2], s[3], s[4])
    /\ pc = "done" => KDOrdered(0, N - 1, 0)

\* C4's case: nodeSize >= 1, a range partitioned on x and a part of it
\* partitioned on y afterwards, with records moved.
C4_Witness ==
    /\ pc = "done"
    /\ NodeSize >= 1
    /\ \E s \in split : s[4] = 1 /\ \E p \in s[1]..s[2] : At(Idxs, p) /= p
    /\ \E s \in split : s[4] = 0 /\ s[2] - s[1] = N - 1

\* C5: Within with a negative radius returns no position.
C5_NegativeRadiusIsEmpty ==
    (Queried("Within") /\ NodeSize >= 1 /\ call.radius < 0) => result = <<>>

\* C6: a call of NewBush with nodeSize <= 0 is rejected or has nodeSize
\* raised to 1 first: no call of sort has nodeSize <= 0 and the index never
\* stores a NodeSize <= 0.
C6_NodeSizeNeverBelowOne ==
    nodeSize <= 0 =>
        /\ \A p \in 1..Len(frames) : frames[p].nodeSize >= 1
        /\ pc /= "NewBush" => NodeSize >= 1

\* The number of points of a range.
Size(r) == r[2] - r[1] + 1

Replay ==
    IF call.op = "Range"
    THEN Range(Bush, call.minX, call.minY, call.maxX, call.maxY)
    ELSE Within(Bush, call.qx, call.qy, call.radius)

Record(idxs, coords, p) == <<At(idxs, p), At(coords, 2 * p), At(coords, 2 * p + 1)>>

\* The value on the axis of sselect at position p.
AxisValue(coords, p) == At(coords, 2 * p + entry.inc)

\* What holds at every step of a call of sselect: no index is out of range,
\* every position accessed is in [left, right], the records of [left, right]
\* are those that were there, and the records outside did not move.
SelectSafe ==
    /\ pc /= "panic"
    /\ touched \subseteq entry.left..entry.right
    /\ Len(Idxs) = Len(entry.Idxs)
    /\ Len(Coords) = Len(entry.Coords)
    /\ {Record(Idxs, Coords, p) : p \in entry.left..entry.right}
        = {Record(entry.Idxs, entry.Coords, p) : p \in entry.left..entry.right}
    /\ \A p \in 0..(Len(Idxs) - 1) :
        (p < entry.left \/ p > entry.right) =>
            Record(Idxs, Coords, p) = Record(entry.Idxs, entry.Coords, p)

\* What holds when sselect has returned: position k holds the value of rank
\* k of the range, nothing on its left is above it, nothing on its right is
\* below it, and a range of one record was not accessed.
SelectDone ==
    LET v == AxisValue(Coords, entry.k)
        was == [p \in entry.left..entry.right |-> AxisValue(entry.Coords, p)] IN
    /\ \A p \in entry.left..(entry.k - 1) : AxisValue(Coords, p) <= v
    /\ \A p \in (entry.k + 1)..entry.right : AxisValue(Coords, p) >= v
    /\ Cardinality({p \in entry.left..entry.right : was[p] < v}) <= entry.k - entry.left
    /\ Cardinality({p \in entry.left..entry.right : was[p] <= v}) > entry.k - entry.left
    /\ entry.left = entry.right =>
        (touched = {} /\ Idxs = entry.Idxs /\ Coords = entry.Coords)

\* C10: a call of sselect with left <= k <= right returns, accesses only
\* positions of [left, right], rearranges the records of [left, right] and
\* no other, and leaves at position k the value of rank k with nothing
\* above it on its left and nothing below it on its right.
C10_SelectContract ==
    /\ [](SelectSafe /\ (pc = "returned" => SelectDone))
    /\ <>(pc = "returned")

\* C10's case: sselect has returned from a range with values below, equal
\* to and above the value of rank k, after more than one round of its loop
\* on a range k was inside of.
C10_Witness ==
    /\ pc = "returned"
    /\ entry.left < entry.k
    /\ entry.k < entry.right
    /\ \E p, q, r \in entry.left..entry.right :
        /\ AxisValue(Coords, p) < AxisValue(Coords, q)
        /\ AxisValue(Coords, q) < AxisValue(Coords, r)
        /\ AxisValue(Coords, q) = AxisValue(Coords, entry.k)
        /\ p /= entry.k /\ q /= entry.k
    /\ Idxs /= entry.Idxs
    /\ sel.left > entry.left
    /\ sel.right < entry.right

====
